---- MODULE Spec2Model ----
(***************************************************************************)
(* Process supervision and event broadcast of the bore web GUI             *)
(* (src/src/web_gui.rs): the start/stop handlers, the monitor task every   *)
(* start spawns, broadcast_message and the websocket connection handler.   *)
(*                                                                         *)
(* The runtime is tokio's multi-threaded one (#[tokio::main]), so tasks    *)
(* interleave at every access to shared state.  The two shared maps are    *)
(* guarded by std::sync::Mutex: a step that takes and releases a mutex     *)
(* with no suspension point in between is one atomic action; stop_client   *)
(* and stop_server keep the guard of `processes` until they return, which  *)
(* the variable procLock records.                                          *)
(***************************************************************************)
EXTENDS Naturals, Integers, Sequences, FiniteSets, TLC

\* ---------------------------------------------------------------- bounds
MaxStarts == 2      \* start requests issued (each draws one session id)
MaxStops  == 2      \* stop requests issued
MaxConns  == 2      \* websocket connections accepted
MaxLines  == 2      \* lines the subprocesses write, all streams together
ClassLines == 1     \* lines written where every line of the table may be written
MaxPings  == 1      \* inbound text messages handled on one connection
\* A scenario that spans one of these numbers keeps the others low.
LoStarts == 1
LoStops  == 1
LoConns  == 1

Ids    == 1..MaxStarts
Stops  == 1..MaxStops
Conns  == 1..MaxConns
Roles  == {"client", "server"}
Streams == {"stdout", "stderr"}

VARIABLES
    nextId,       \* session ids handed out so far (Uuid::new_v4 in a start handler)
    role,         \* role[id]: which start handler drew the id, "none" before
    startPc,      \* position of the start handler that drew the id
    startRes,     \* what that handler returned: "none" | "ok" | "error"
    proc,         \* the subprocess: "none" | "running" | "dead"
    signalled,    \* a termination signal was delivered to the subprocess
    pipe,         \* pipe[id][stream]: lines written and not yet read
    nWritten,     \* nWritten[id][stream]: lines the subprocess has written
    monPc,        \* position of the monitor task of the session
    monLine,      \* the line the monitor task holds
    processes,    \* AppState.processes: the entries <<session id, pid>> of the map
    procLock,     \* holder of the mutex of `processes`: 0 (free) or a stop request
    stopPc,       \* position of each stop request
    stopArg,      \* its arguments: the handler (role) and the id of the path
    stopPid,      \* the pid it removed from the store
    stopRes,      \* what it returned: "none" | "Success" | "NotFound"
    connections,  \* AppState.connections: the connection ids holding a sender
    connPc,       \* position of handle_socket for each connection
    queue,        \* the unbounded channel of each connection (tx -> rx)
    written,      \* what send_task wrote to the websocket, in order
    connAt,       \* the number of session ids drawn when the connection registered
    inbound,      \* the text messages recv_task has handled on each connection
    emitted       \* emitted[id][type]: how many events of the type were broadcast for id

vars == <<nextId, role, startPc, startRes, proc, signalled, pipe, nWritten, monPc,
          monLine, processes, procLock, stopPc, stopArg, stopPid, stopRes,
          connections, connPc, queue, written, connAt, inbound, emitted>>

startVars == <<nextId, role, startPc, startRes>>
procVars  == <<proc, signalled, pipe, nWritten>>
monVars   == <<monPc, monLine>>
stopVars  == <<stopPc, stopArg, stopPid, stopRes>>
connVars  == <<connections, connPc, written, connAt, inbound>>

NoLine == [n |-> 0, txt |-> 0]
NoArg  == [handler |-> "none", id |-> 0]

\* ------------------------------------------------------------ the events
\* WebSocketMessage { msg_type, data, id: None }; data carries the session id
\* and, for a log line, the line and the is_error flag.  The field corr is
\* the message's own id (the correlation id), "-" for None.
Event(type, id, stream, line, port) ==
    [type |-> type, id |-> id, stream |-> stream, n |-> line.n, txt |-> line.txt,
     port |-> port, corr |-> "-"]

LifeEvent(type, id) == Event(type, id, "-", NoLine, 0)

\* An answer that leaves the id out.
PongNoId(corr) == LifeEvent("pong", 0)

\* Lines 130-134: the answer to a ping, with the ping's id.
Pong(corr) == [LifeEvent("pong", 0) EXCEPT !.corr = corr]

\* The msg_type values the handlers and the monitor tasks broadcast.
EventTypes ==
    {"client_started", "client_port_assigned", "client_log", "client_exited",
     "client_stopped", "server_started", "server_log", "server_exited", "server_stopped"}

\* ------------------------------------------------- the output classifier
\* A line is the sequence of its characters.
ListeningAt == <<"l","i","s","t","e","n","i","n","g"," ","a","t">>
RemotePortEq == <<"r","e","m","o","t","e","_","p","o","r","t","=">>

\* A byte sequence that is not UTF-8, as one character.
NotUtf8 == "\\xFF"

\* Pieces of lines: the two markers, the separators and numbers in and out of
\* the range of u16; a line of three pieces for every choice of them.
Fragments ==
    << <<>>, ListeningAt, RemotePortEq, <<":">>, <<" ">>, <<"9","0">>,
       <<"7","0","0","0","0">>, <<"x">> >>

NumFragments == Len(Fragments)

FragmentLines ==
    [i \in 1..(NumFragments * NumFragments * NumFragments) |->
        Fragments[((i - 1) \div (NumFragments * NumFragments)) + 1]
        \o Fragments[(((i - 1) \div NumFragments) % NumFragments) + 1]
        \o Fragments[((i - 1) % NumFragments) + 1]]

\* The lines a subprocess may write, by number.
Texts == <<
    <<"u","p">>,
    ListeningAt \o <<" ","h",":","4","1","2","3","0">>,
    RemotePortEq \o <<"9","0","0","0"," ","f","o","o">>,
    ListeningAt \o <<" ">> \o RemotePortEq \o <<"9","0","0","0">>,
    ListeningAt \o <<" ","h",":","7","0","0","0","0">>,
    <<"o","k",NotUtf8>> >> \o FragmentLines

\* The lines the subprocesses of the specification write.
ProcTexts == {2, 6}

\* Lines::next_line yields Err for a line that is not UTF-8.
ValidUtf8(line) == \A i \in 1..Len(line) : line[i] # NotUtf8

IsSpace(c) == c = " "

DigitVal(c) ==
    CASE c = "0" -> 0 [] c = "1" -> 1 [] c = "2" -> 2 [] c = "3" -> 3 [] c = "4" -> 4
      [] c = "5" -> 5 [] c = "6" -> 6 [] c = "7" -> 7 [] c = "8" -> 8 [] c = "9" -> 9
      [] OTHER -> -1

\* str::contains
Contains(s, pat) ==
    \E i \in 1..(Len(s) + 1) : i + Len(pat) - 1 <= Len(s) /\ SubSeq(s, i, i + Len(pat) - 1) = pat

\* str::split(pat).last(): what follows the last occurrence of pat, the whole
\* string when there is none.
SplitLast(s, pat) ==
    LET at == {i \in 1..Len(s) : i + Len(pat) - 1 <= Len(s) /\ SubSeq(s, i, i + Len(pat) - 1) = pat}
    IN  IF at = {} THEN s
        ELSE LET i == CHOOSE j \in at : \A k \in at : k <= j
             IN  SubSeq(s, i + Len(pat), Len(s))

\* str::trim
Trim(s) ==
    LET keep == {i \in 1..Len(s) : ~IsSpace(s[i])}
    IN  IF keep = {} THEN <<>>
        ELSE SubSeq(s, CHOOSE i \in keep : \A k \in keep : i <= k,
                       CHOOSE j \in keep : \A k \in keep : k <= j)

\* str::split_whitespace().next(): the first token, <<>> for None.
FirstToken(s) ==
    LET keep == {i \in 1..Len(s) : ~IsSpace(s[i])}
    IN  IF keep = {} THEN <<>>
        ELSE LET a == CHOOSE i \in keep : \A k \in keep : i <= k
                 stop == {i \in a..Len(s) : IsSpace(s[i])}
                 b == IF stop = {} THEN Len(s) ELSE (CHOOSE i \in stop : \A k \in stop : i <= k) - 1
             IN  SubSeq(s, a, b)

U16Max == 65535

\* The value of a string of digits, digit by digit as the parser goes; a
\* value past the range of u16 is kept as it is (checked arithmetic).
RECURSIVE DecimalValue(_)
DecimalValue(s) ==
    IF s = <<>> THEN 0
    ELSE LET v == DecimalValue(SubSeq(s, 1, Len(s) - 1))
         IN  IF v > U16Max THEN v ELSE 10 * v + DigitVal(s[Len(s)])

\* str::parse::<u16>(): an optional '+', then one or more digits, no overflow;
\* -1 stands for Err.
ParseU16(s) ==
    LET digits == IF s # <<>> /\ s[1] = "+" THEN Tail(s) ELSE s
    IN  IF digits = <<>> \/ \E i \in 1..Len(digits) : DigitVal(digits[i]) < 0 THEN -1
        ELSE IF DecimalValue(digits) > U16Max THEN -1
        ELSE DecimalValue(digits)

\* The port the stdout loop of start_client reads out of a line; -1 for None.
ActualPort(line) ==
    IF Contains(line, ListeningAt) THEN ParseU16(Trim(SplitLast(line, <<":">>)))
    ELSE IF Contains(line, RemotePortEq)
         THEN LET tok == FirstToken(SplitLast(line, RemotePortEq))
              IN  IF tok = <<>> THEN -1 ELSE ParseU16(tok)
    ELSE -1

\* ------------------------------------------------------------------ Init
\* The state after main built AppState, with the websockets of `observers`
\* upgraded and registered since (lines 108-113).
InitWith(observers) ==
    /\ nextId = 0
    /\ role = [i \in Ids |-> "none"]
    /\ startPc = [i \in Ids |-> "none"]
    /\ startRes = [i \in Ids |-> "none"]
    /\ proc = [i \in Ids |-> "none"]
    /\ signalled = [i \in Ids |-> FALSE]
    /\ pipe = [i \in Ids |-> [s \in Streams |-> <<>>]]
    /\ nWritten = [i \in Ids |-> [s \in Streams |-> 0]]
    /\ monPc = [i \in Ids |-> "none"]
    /\ monLine = [i \in Ids |-> NoLine]
    /\ processes = {}
    /\ procLock = 0
    /\ stopPc = [k \in Stops |-> "idle"]
    /\ stopArg = [k \in Stops |-> NoArg]
    /\ stopPid = [k \in Stops |-> 0]
    /\ stopRes = [k \in Stops |-> "none"]
    /\ connections = observers
    /\ connPc = [c \in Conns |-> IF c \in observers THEN "open" ELSE "none"]
    /\ queue = [c \in Conns |-> <<>>]
    /\ written = [c \in Conns |-> <<>>]
    /\ connAt = [c \in Conns |-> 0]
    /\ inbound = [c \in Conns |-> <<>>]
    /\ emitted = [i \in Ids |-> [t \in EventTypes |-> 0]]

Init == InitWith({})

\* One observer is connected before the first request.
InitObserved == InitWith({1})

\* ------------------------------------------------------ broadcast_message
\* A receiving end that goes with the write loop.
RxAliveWhileOpen(c) == connPc[c] = "open"

\* The receiving end rx is a local of handle_socket: it lives until the
\* function returns, which is after the removal of the id from the map.
RxAlive(c) == connPc[c] \in {"open", "closing"}

\* A pass that ends at the first connection whose socket has failed.
DeliverUntilClosing(msg) ==
    [c \in Conns |->
        IF c \in connections /\ \A d \in connections : d <= c => connPc[d] = "open"
        THEN Append(queue[c], msg)
        ELSE queue[c]]

\* A pass that puts the message at the head of each channel.
DeliverFront(msg) ==
    [c \in Conns |-> IF c \in connections /\ RxAlive(c) THEN <<msg>> \o queue[c]
                     ELSE queue[c]]

\* One pass over connections.values() under the mutex: tx.send(msg.clone()),
\* its result dropped.  A send fails only when rx is gone.
Deliver(msg) ==
    [c \in Conns |-> IF c \in connections /\ RxAlive(c) THEN Append(queue[c], msg)
                     ELSE queue[c]]

Broadcast(msg) ==
    /\ queue' = Deliver(msg)
    /\ emitted' = [emitted EXCEPT ![msg.id][msg.type] = @ + 1]

\* ---------------------------------------------------- the process store
\* HashMap<String, u32> as the set of its entries, one per key.
HasKey(id) == \E e \in processes : e[1] = id
PidOf(id) == (CHOOSE e \in processes : e[1] = id)[2]
\* An insert that is lost.
InsertDropped(id, pid) == processes
Insert(id, pid) == {e \in processes : e[1] # id} \cup {<<id, pid>>}
\* A removal that keeps the key, and one that takes the other keys.
RemoveKeeps(id) == processes
RemoveOthers(id) == {e \in processes : e[1] = id}
Remove(id) == {e \in processes : e[1] # id}

\* child.id() of the subprocess of session id: the pid the OS gave it.
Pid(id) == id
ProcOfPid(pid) == {i \in Ids : proc[i] # "none" /\ Pid(i) = pid}

\* --------------------------------------------- start_client / start_server
\* Lines 159-180 (337-361): draw the id, build the command, spawn.  ok is
\* the outcome of cmd.spawn().
StartSpawn(r, ok) ==
    /\ nextId < MaxStarts
    /\ LET id == nextId + 1 IN
        /\ nextId' = id
        /\ role' = [role EXCEPT ![id] = r]
        /\ startPc' = [startPc EXCEPT ![id] = IF ok THEN "insert" ELSE "done"]
        /\ startRes' = [startRes EXCEPT ![id] = IF ok THEN "none" ELSE "error"]
        /\ proc' = [proc EXCEPT ![id] = IF ok THEN "running" ELSE "none"]
    /\ UNCHANGED <<signalled, pipe, nWritten, monVars, processes, procLock, stopVars,
                   connVars, queue, emitted>>

\* The two handlers, while fewer than `starts` requests were made.
StartClient(starts) == nextId < starts /\ \E ok \in BOOLEAN : StartSpawn("client", ok)
StartServer(starts) == nextId < starts /\ \E ok \in BOOLEAN : StartSpawn("server", ok)

\* Lines 183-190 (364-370): insert the record, then tokio::spawn the monitor.
StartInsert(id) ==
    /\ startPc[id] = "insert"
    /\ procLock = 0
    /\ processes' = Insert(id, Pid(id))
    /\ monPc' = [monPc EXCEPT ![id] = "stdout"]
    /\ startPc' = [startPc EXCEPT ![id] = "started"]
    /\ UNCHANGED <<nextId, role, startRes, procVars, monLine, procLock, stopVars,
                   connVars, queue, emitted>>

\* Lines 277-290 (421-434): broadcast {role}_started and return Ok.
StartBroadcast(id) ==
    /\ startPc[id] = "started"
    /\ Broadcast(LifeEvent(role[id] \o "_started", id))
    /\ startPc' = [startPc EXCEPT ![id] = "done"]
    /\ startRes' = [startRes EXCEPT ![id] = "ok"]
    /\ UNCHANGED <<nextId, role, procVars, monVars, processes, procLock, stopVars, connVars>>

\* ------------------------------------------------------- the subprocess
RECURSIVE SumLines(_)
SumLines(S) ==
    IF S = {} THEN 0
    ELSE LET i == CHOOSE x \in S : TRUE
         IN  nWritten[i]["stdout"] + nWritten[i]["stderr"] + SumLines(S \ {i})

LinesWritten == SumLines(Ids)

\* The reading end of a pipe lives from the spawn until the monitor task
\* leaves the block of the stream's loop (lines 191-244, 246-262).
ReaderOpen(id, s) ==
    IF s = "stdout" THEN monPc[id] \in {"none", "stdout", "port", "log"}
    ELSE monPc[id] \in {"none", "stdout", "port", "log", "stderr", "errlog"}

\* The external binary writes a line to one of its piped streams, while fewer
\* than `lines` lines were written in all.
ProcWrite(id, s, t, lines) ==
    /\ proc[id] = "running"
    /\ ReaderOpen(id, s)
    /\ LinesWritten < lines
    /\ nWritten' = [nWritten EXCEPT ![id][s] = @ + 1]
    /\ pipe' = [pipe EXCEPT ![id][s] = Append(@, [n |-> nWritten[id][s] + 1, txt |-> t])]
    /\ UNCHANGED <<startVars, proc, signalled, monVars, processes, procLock, stopVars,
                   connVars, queue, emitted>>

\* It exits, of its own accord or on a signal; its ends of the pipes close.
ProcExit(id) ==
    /\ proc[id] = "running"
    /\ proc' = [proc EXCEPT ![id] = "dead"]
    /\ UNCHANGED <<startVars, signalled, pipe, nWritten, monVars, processes, procLock,
                   stopVars, connVars, queue, emitted>>

\* An end of stream taken from the exit alone, whatever is left in the pipe.
AtEofEarly(id, s) == proc[id] = "dead"

\* next_line() yields Ok(None) once the pipe is drained and its writer is gone.
AtEof(id, s) == pipe[id][s] = <<>> /\ proc[id] = "dead"

\* ------------------------------------------------------ the monitor task
\* actual_port of every line of the table, and whether the line is UTF-8.
PortOf == [t \in DOMAIN Texts |-> ActualPort(Texts[t])]
Utf8Of == [t \in DOMAIN Texts |-> ValidUtf8(Texts[t])]

\* A classifier run on the stdout of every session.
ClassifiedAnyRole(id, t) == PortOf[t] >= 0

\* Lines 215-228 are in start_client alone: the line, by its number, of a
\* client that gave Some(port).
Classified(id, t) == role[id] = "client" /\ PortOf[t] >= 0

\* Lines 193-213: the stdout loop reads a line; a client classifies it.  On
\* Err the loop ends, the reader is dropped and line 246 takes stderr.
MonReadStdout(id) ==
    /\ monPc[id] = "stdout"
    /\ pipe[id]["stdout"] # <<>>
    /\ LET line == Head(pipe[id]["stdout"]) IN
        IF Utf8Of[line.txt]
        THEN /\ monLine' = [monLine EXCEPT ![id] = line]
             /\ monPc' = [monPc EXCEPT ![id] =
                    IF Classified(id, line.txt) THEN "port" ELSE "log"]
             /\ pipe' = [pipe EXCEPT ![id]["stdout"] = Tail(@)]
        ELSE /\ monPc' = [monPc EXCEPT ![id] = "stderr"]
             /\ pipe' = [pipe EXCEPT ![id]["stdout"] = <<>>]
             /\ UNCHANGED monLine
    /\ UNCHANGED <<startVars, proc, signalled, nWritten, processes, procLock, stopVars,
                   connVars, queue, emitted>>

\* Lines 215-228: broadcast client_port_assigned.
MonPort(id) ==
    /\ monPc[id] = "port"
    /\ Broadcast(Event("client_port_assigned", id, "stdout", monLine[id],
                       PortOf[monLine[id].txt]))
    /\ monPc' = [monPc EXCEPT ![id] = "log"]
    /\ UNCHANGED <<startVars, procVars, monLine, processes, procLock, stopVars, connVars>>

\* Lines 231-241 (375-385): broadcast the line as {role}_log.
MonLog(id) ==
    /\ monPc[id] = "log"
    /\ Broadcast(Event(role[id] \o "_log", id, "stdout", monLine[id], 0))
    /\ monPc' = [monPc EXCEPT ![id] = "stdout"]
    /\ monLine' = [monLine EXCEPT ![id] = NoLine]
    /\ UNCHANGED <<startVars, procVars, processes, procLock, stopVars, connVars>>

\* Line 193 (373): the stdout loop ends; line 246 (390) takes stderr.
MonStdoutEof(id) ==
    /\ monPc[id] = "stdout"
    /\ AtEof(id, "stdout")
    /\ monPc' = [monPc EXCEPT ![id] = "stderr"]
    /\ UNCHANGED <<startVars, procVars, monLine, processes, procLock, stopVars, connVars,
                   queue, emitted>>

\* Line 248 (392): the stderr loop reads a line.  On Err the loop ends, the
\* reader is dropped and line 265 (409) awaits the exit.
MonReadStderr(id) ==
    /\ monPc[id] = "stderr"
    /\ pipe[id]["stderr"] # <<>>
    /\ LET line == Head(pipe[id]["stderr"]) IN
        IF Utf8Of[line.txt]
        THEN /\ monLine' = [monLine EXCEPT ![id] = line]
             /\ monPc' = [monPc EXCEPT ![id] = "errlog"]
             /\ pipe' = [pipe EXCEPT ![id]["stderr"] = Tail(@)]
        ELSE /\ monPc' = [monPc EXCEPT ![id] = "wait"]
             /\ pipe' = [pipe EXCEPT ![id]["stderr"] = <<>>]
             /\ UNCHANGED monLine
    /\ UNCHANGED <<startVars, proc, signalled, nWritten, processes, procLock, stopVars,
                   connVars, queue, emitted>>

\* Lines 249-260 (393-404): broadcast it as {role}_log with is_error.
MonErrLog(id) ==
    /\ monPc[id] = "errlog"
    /\ Broadcast(Event(role[id] \o "_log", id, "stderr", monLine[id], 0))
    /\ monPc' = [monPc EXCEPT ![id] = "stderr"]
    /\ monLine' = [monLine EXCEPT ![id] = NoLine]
    /\ UNCHANGED <<startVars, procVars, processes, procLock, stopVars, connVars>>

\* Line 248 (392) ends the stderr loop; line 265 (409) awaits the exit.
MonWait(id) ==
    /\ \/ monPc[id] = "stderr" /\ AtEof(id, "stderr")
       \/ monPc[id] = "wait" /\ proc[id] = "dead"
    /\ monPc' = [monPc EXCEPT ![id] = "remove"]
    /\ UNCHANGED <<startVars, procVars, monLine, processes, procLock, stopVars, connVars,
                   queue, emitted>>

\* A removal that does not wait for the mutex.
MonRemoveUnlocked(id) ==
    /\ monPc[id] = "remove"
    /\ processes' = Remove(id)
    /\ monPc' = [monPc EXCEPT ![id] = "exited"]
    /\ UNCHANGED <<startVars, procVars, monLine, procLock, stopVars, connVars, queue, emitted>>

\* Line 266 (410): remove the record, under the mutex.
MonRemove(id) ==
    /\ monPc[id] = "remove"
    /\ procLock = 0
    /\ processes' = Remove(id)
    /\ monPc' = [monPc EXCEPT ![id] = "exited"]
    /\ UNCHANGED <<startVars, procVars, monLine, procLock, stopVars, connVars, queue, emitted>>

\* Lines 267-274 (411-418): broadcast {role}_exited; the task ends.
MonExited(id) ==
    /\ monPc[id] = "exited"
    /\ Broadcast(LifeEvent(role[id] \o "_exited", id))
    /\ monPc' = [monPc EXCEPT ![id] = "done"]
    /\ UNCHANGED <<startVars, procVars, monLine, processes, procLock, stopVars, connVars>>

\* ----------------------------------------------- stop_client / stop_server
\* The handlers are modelled as called with an id; main's Router (lines 63-67)
\* gives them no route.
\* The id of a stop request's path is one a start handler has given out (in
\* its response or in {role}_started), or a string that is no session's id.
UnknownId == 0
GivenOut == {i \in Ids : startRes[i] = "ok"}
StopIds == GivenOut \cup {UnknownId}

\* Lines 303-305 (447-449): lock the store and remove the id.  The guard
\* lives until the handler returns.  Line 329 (473): NotFound.
StopCall(k, h, id) ==
    /\ stopPc[k] = "idle"
    /\ \A j \in Stops : j < k => stopPc[j] # "idle"
    /\ procLock = 0
    /\ stopArg' = [stopArg EXCEPT ![k] = [handler |-> h, id |-> id]]
    /\ processes' = Remove(id)
    /\ IF HasKey(id)
       THEN /\ stopPid' = [stopPid EXCEPT ![k] = PidOf(id)]
            /\ procLock' = k
            /\ stopPc' = [stopPc EXCEPT ![k] = "kill"]
            /\ UNCHANGED stopRes
       ELSE /\ stopRes' = [stopRes EXCEPT ![k] = "NotFound"]
            /\ stopPc' = [stopPc EXCEPT ![k] = "done"]
            /\ UNCHANGED <<stopPid, procLock>>
    /\ UNCHANGED <<startVars, procVars, monVars, connVars, queue, emitted>>

\* The two handlers, for the first `stops` requests.
StopClient(stops) == \E k \in 1..stops, id \in StopIds : StopCall(k, "client", id)
StopServer(stops) == \E k \in 1..stops, id \in StopIds : StopCall(k, "server", id)

\* A Stop that, with the guard of the store in hand, waits for the monitor
\* task of the session to end.
StopKillAwaitsMonitor(k) ==
    /\ stopPc[k] = "kill"
    /\ \A i \in ProcOfPid(stopPid[k]) : monPc[i] = "done"
    /\ signalled' = [i \in Ids |->
           IF i \in ProcOfPid(stopPid[k]) /\ proc[i] = "running" THEN TRUE ELSE signalled[i]]
    /\ stopPc' = [stopPc EXCEPT ![k] = "stopped"]
    /\ UNCHANGED <<startVars, proc, pipe, nWritten, monVars, processes, procLock, stopArg,
                   stopPid, stopRes, connVars, queue, emitted>>

\* Lines 306-316 (450-460): run kill / taskkill on the pid and wait for it.
\* A process that is gone makes the command fail, which is dropped.
StopKill(k) ==
    /\ stopPc[k] = "kill"
    /\ signalled' = [i \in Ids |->
           IF i \in ProcOfPid(stopPid[k]) /\ proc[i] = "running" THEN TRUE ELSE signalled[i]]
    /\ stopPc' = [stopPc EXCEPT ![k] = "stopped"]
    /\ UNCHANGED <<startVars, proc, pipe, nWritten, monVars, processes, procLock, stopArg,
                   stopPid, stopRes, connVars, queue, emitted>>

\* A handler that returns with the guard of the store left behind.
StopBroadcastKeepsLock(k) ==
    /\ stopPc[k] = "stopped"
    /\ Broadcast(LifeEvent(stopArg[k].handler \o "_stopped", stopArg[k].id))
    /\ stopPc' = [stopPc EXCEPT ![k] = "done"]
    /\ stopRes' = [stopRes EXCEPT ![k] = "Success"]
    /\ UNCHANGED <<startVars, procVars, monVars, processes, procLock, stopArg, stopPid,
                   connVars>>

\* Lines 318-327 (462-471): broadcast {handler}_stopped, return Success; the
\* guard of the store is dropped on return.
StopBroadcast(k) ==
    /\ stopPc[k] = "stopped"
    /\ Broadcast(LifeEvent(stopArg[k].handler \o "_stopped", stopArg[k].id))
    /\ stopPc' = [stopPc EXCEPT ![k] = "done"]
    /\ stopRes' = [stopRes EXCEPT ![k] = "Success"]
    /\ procLock' = 0
    /\ UNCHANGED <<startVars, procVars, monVars, processes, stopArg, stopPid, connVars>>

\* ----------------------------------------------------------- handle_socket
\* Lines 108-113: a websocket is upgraded; its sender is registered.
Connect(c) ==
    /\ connPc[c] = "none"
    /\ \A d \in Conns : d < c => connPc[d] # "none"
    /\ connPc' = [connPc EXCEPT ![c] = "open"]
    /\ connections' = connections \cup {c}
    /\ connAt' = [connAt EXCEPT ![c] = nextId]
    /\ UNCHANGED <<startVars, procVars, monVars, processes, procLock, stopVars, queue,
                   written, inbound, emitted>>

\* Lines 115-122: send_task takes the next message off the channel and
\* writes it to the socket; ok is the outcome of sender.send.
SendTask(c, ok) ==
    /\ connPc[c] = "open"
    /\ queue[c] # <<>>
    /\ queue' = [queue EXCEPT ![c] = Tail(@)]
    /\ IF ok THEN /\ written' = [written EXCEPT ![c] = Append(@, Head(queue[c]))]
                  /\ UNCHANGED connPc
       ELSE /\ connPc' = [connPc EXCEPT ![c] = "closing"]
            /\ UNCHANGED written
    /\ UNCHANGED <<startVars, procVars, monVars, processes, procLock, stopVars,
                   connections, connAt, inbound, emitted>>

\* Line 125: receiver.next() yields None or an error; select! ends both halves.
RecvEnd(c) ==
    /\ connPc[c] = "open"
    /\ connPc' = [connPc EXCEPT ![c] = "closing"]
    /\ UNCHANGED <<startVars, procVars, monVars, processes, procLock, stopVars,
                   connections, queue, written, connAt, inbound, emitted>>

\* Line 152: remove the id from the map; rx and tx are dropped on return.
Unregister(c) ==
    /\ connPc[c] = "closing"
    /\ connPc' = [connPc EXCEPT ![c] = "closed"]
    /\ connections' = connections \ {c}
    /\ UNCHANGED <<startVars, procVars, monVars, processes, procLock, stopVars, queue,
                   written, connAt, inbound, emitted>>

\* The text messages a peer may send: a ping with or without an id, a
\* message of another type, and a text that is no WebSocketMessage.
InMsgs ==
    {[kind |-> "ping", corr |-> "a"], [kind |-> "ping", corr |-> "-"],
     [kind |-> "status", corr |-> "a"], [kind |-> "unparsed", corr |-> "-"]}

\* Lines 125-143: recv_task takes a text message; a ping is answered with a
\* pong sent on the sender the map holds for conn_id, .get().unwrap()
\* panicking when there is none, the result of send dropped.
RecvText(c, m, pings) ==
    /\ connPc[c] = "open"
    /\ Len(inbound[c]) < pings
    /\ inbound' = [inbound EXCEPT ![c] = Append(@, m)]
    /\ IF m.kind # "ping" THEN UNCHANGED <<queue, connPc>>
       ELSE IF c \notin connections
            THEN connPc' = [connPc EXCEPT ![c] = "panicked"] /\ UNCHANGED queue
       ELSE /\ queue' = [queue EXCEPT ![c] = IF RxAlive(c) THEN Append(@, Pong(m.corr)) ELSE @]
            /\ UNCHANGED connPc
    /\ UNCHANGED <<startVars, procVars, monVars, processes, procLock, stopVars,
                   connections, written, connAt, emitted>>

\* ------------------------------------------------------ the specification
\* The steps of the sessions: the start handlers, the subprocesses' exits and
\* the monitor tasks' way to the end once the pipes are drained.
SessionSteps(starts) ==
    \/ StartClient(starts)
    \/ StartServer(starts)
    \/ \E id \in Ids : StartInsert(id)
    \/ \E id \in Ids : StartBroadcast(id)
    \/ \E id \in Ids : ProcExit(id)
    \/ \E id \in Ids : MonStdoutEof(id)
    \/ \E id \in Ids : MonWait(id)
    \/ \E id \in Ids : MonRemove(id)
    \/ \E id \in Ids : MonExited(id)

\* The subprocesses' output and the monitor tasks' reading of it.
LineSteps(lines) ==
    \/ \E id \in Ids, s \in Streams, t \in ProcTexts : ProcWrite(id, s, t, lines)
    \/ \E id \in Ids : MonReadStdout(id)
    \/ \E id \in Ids : MonPort(id)
    \/ \E id \in Ids : MonLog(id)
    \/ \E id \in Ids : MonReadStderr(id)
    \/ \E id \in Ids : MonErrLog(id)

\* A client's stdout, for every line of the table.
ClassifySteps(lines) ==
    \/ \E id \in Ids, t \in DOMAIN Texts : ProcWrite(id, "stdout", t, lines)
    \/ \E id \in Ids : MonReadStdout(id)
    \/ \E id \in Ids : MonPort(id)
    \/ \E id \in Ids : MonLog(id)

\* The stop handlers.
StopSteps(stops) ==
    \/ StopClient(stops)
    \/ StopServer(stops)
    \/ \E k \in Stops : StopKill(k)
    \/ \E k \in Stops : StopBroadcast(k)

\* The websocket connections.
ConnSteps(conns) ==
    \/ \E c \in 1..conns : Connect(c)
    \/ \E c \in Conns, ok \in BOOLEAN : SendTask(c, ok)
    \/ \E c \in Conns : RecvEnd(c)
    \/ \E c \in Conns : Unregister(c)

\* The inbound half of the connections.
PingSteps(pings) == \E c \in Conns, m \in InMsgs : RecvText(c, m, pings)

Next ==
    \/ PingSteps(MaxPings)
    \/ SessionSteps(MaxStarts)
    \/ LineSteps(MaxLines)
    \/ StopSteps(MaxStops)
    \/ ConnSteps(MaxConns)

\* The whole system.
Spec == Init /\ [][Next]_vars

\* Two stop requests racing with a session's exit, no observer connected.
SpecStop == Init /\ [][SessionSteps(LoStarts) \/ StopSteps(MaxStops)]_vars

\* Two start requests, and a stop request.
SpecStart == Init /\ [][SessionSteps(MaxStarts) \/ StopSteps(LoStops)]_vars

\* One session, its output and its stop, one observer.
SpecWatch ==
    Init /\ [][\/ SessionSteps(LoStarts) \/ LineSteps(MaxLines)
               \/ StopSteps(LoStops) \/ ConnSteps(LoConns)]_vars

\* Two stop requests and a session, seen by an observer that stays connected.
SpecStopSeen ==
    InitObserved /\ [][SessionSteps(LoStarts) \/ StopSteps(MaxStops)]_vars

\* One session, its stop and two observers.
SpecFan ==
    Init /\ [][SessionSteps(LoStarts) \/ StopSteps(LoStops) \/ ConnSteps(MaxConns)]_vars

\* Two sessions and their output, seen by an observer that stays connected.
SpecOrder ==
    InitObserved /\ [][\/ SessionSteps(MaxStarts) \/ LineSteps(MaxLines)
                       \/ \E c \in Conns : SendTask(c, TRUE)]_vars

\* One session writing one line, any line of the table, to its stdout.
SpecClassify == Init /\ [][SessionSteps(LoStarts) \/ ClassifySteps(ClassLines)]_vars

\* Two connections with their inbound messages, and a session's broadcasts.
SpecPing ==
    Init /\ [][SessionSteps(LoStarts) \/ ConnSteps(MaxConns) \/ PingSteps(MaxPings)]_vars

\* The steps the runtime takes on its own once they can be taken: those of a
\* start handler past the spawn, of a monitor task and of a stop handler past
\* its call.  What the subprocess and the peers do is up to them.
TaskSteps ==
    \/ \E id \in Ids : StartInsert(id) \/ StartBroadcast(id)
    \/ \E id \in Ids : MonReadStdout(id) \/ MonPort(id) \/ MonLog(id) \/ MonStdoutEof(id)
    \/ \E id \in Ids : MonReadStderr(id) \/ MonErrLog(id) \/ MonWait(id)
    \/ \E id \in Ids : MonRemove(id) \/ MonExited(id)
    \/ \E k \in Stops : StopKill(k) \/ StopBroadcast(k)

\* One session, its output and a stop request, under fair scheduling of the
\* tasks.
SpecLive ==
    /\ Init
    /\ [][SessionSteps(LoStarts) \/ LineSteps(MaxLines) \/ StopSteps(LoStops)]_vars
    /\ WF_vars(TaskSteps)

\* One session, a stop request and a connection with its inbound messages,
\* under fair scheduling of the tasks.
SpecLocks ==
    /\ Init
    /\ [][\/ SessionSteps(LoStarts) \/ StopSteps(LoStops)
           \/ ConnSteps(LoConns) \/ PingSteps(MaxPings)]_vars
    /\ WF_vars(TaskSteps)
    /\ WF_vars(\E c \in Conns : Unregister(c))

\* ------------------------------------------------------------ the claims
Started(id) == role[id] \o "_started"
Exited(id)  == role[id] \o "_exited"
Log(id)     == role[id] \o "_log"
StoppedTypes == {"client_stopped", "server_stopped"}
ExitedTypes  == {"client_exited", "server_exited"}

\* How many terminal events were broadcast for the session.
Terminal(id) ==
    emitted[id]["client_stopped"] + emitted[id]["server_stopped"]
    + emitted[id]["client_exited"] + emitted[id]["server_exited"]

\* The first stop request on a session id and a later one on the same id, both
\* answered; requests take the mutex of the store in the order of their numbers.
StopPairs ==
    {p \in Stops \X Stops :
        /\ p[1] < p[2]
        /\ \A j \in Stops : j < p[1] => stopArg[j].id # stopArg[p[1]].id
        /\ stopPc[p[1]] = "done" /\ stopPc[p[2]] = "done"
        /\ stopArg[p[1]].id = stopArg[p[2]].id
        /\ stopArg[p[1]].id # UnknownId}

\* The record of the session went into the store, and who took it out.
Inserted(id) == startPc[id] \in {"started", "done"} /\ proc[id] # "none"
RemovedByStop(id) == \E k \in Stops : stopArg[k].id = id /\ stopPid[k] # 0
RemovedByWatcher(id) == monPc[id] \in {"exited", "done"}

\* C1 as stated: two Stop calls on the id of a session whose spawn succeeded
\* yield exactly one Success and exactly one NotFound, whatever the exit
\* watcher does.
C1_OneSuccessOneNotFound ==
    \A p \in StopPairs : {stopRes[p[1]], stopRes[p[2]]} = {"Success", "NotFound"}

\* C1 as amended: of two Stop calls on one id the second returns NotFound,
\* and the first returns Success unless the exit watcher has taken the record
\* out of the store before it, in which case both return NotFound.
C1_SecondStopNotFound ==
    \A p \in StopPairs :
        /\ stopRes[p[2]] = "NotFound"
        /\ stopRes[p[1]] \in {"Success", "NotFound"}
        /\ stopRes[p[1]] = "NotFound" => RemovedByWatcher(stopArg[p[1]].id)

\* Two stops on one id, one Success and one NotFound, with the exit watcher
\* gone through its own removal as well.
C1_Witness ==
    \E p \in StopPairs :
        /\ stopRes[p[1]] = "Success" /\ stopRes[p[2]] = "NotFound"
        /\ monPc[stopArg[p[1]].id] = "done"

\* C2 as stated: a session gets exactly one terminal event over its life,
\* {role}_exited or {role}_stopped: never both, and one once it is over.
C2_ExactlyOneTerminal ==
    \A id \in Ids :
        /\ Terminal(id) <= 1
        /\ monPc[id] = "done" => Terminal(id) = 1

\* C3 as stated: an id is in the store iff its subprocess is running (the
\* start handler being past its insert).
C3_InStoreIffRunning ==
    \A id \in Ids : startPc[id] # "insert" => (HasKey(id) <=> proc[id] = "running")

\* C3 as amended: an id is in the store exactly from the start handler's
\* insert, which follows a successful spawn, to its first removal by a Stop or
\* by the exit watcher, and the watcher removes it only after the subprocess
\* has exited; so the id of a running subprocess is absent only before the
\* insert or after a Stop took it out.
C3_InStoreFromInsertToRemoval ==
    \A id \in Ids :
        /\ HasKey(id) <=> Inserted(id) /\ ~RemovedByStop(id) /\ ~RemovedByWatcher(id)
        /\ HasKey(id) => proc[id] \in {"running", "dead"}
        /\ RemovedByWatcher(id) => proc[id] = "dead"
        /\ proc[id] = "running" /\ ~HasKey(id) => startPc[id] = "insert" \/ RemovedByStop(id)

\* The record of a subprocess that has exited, not removed yet.
C3_Witness ==
    \E id \in Ids : HasKey(id) /\ proc[id] = "dead" /\ monPc[id] = "remove"

\* C4 as stated: a Stop that arrives when the subprocess has exited of its own
\* accord returns NotFound (and so broadcasts no {role}_stopped), also while
\* the exit watcher has not removed the record yet.
C4_StopAfterExitNotFound ==
    [][\A k \in Stops :
          /\ stopPc[k] = "idle" /\ stopPc'[k] # "idle"
          /\ stopArg'[k].id # UnknownId
          /\ proc[stopArg'[k].id] = "dead" /\ ~signalled[stopArg'[k].id]
          => stopPc'[k] = "done" /\ stopRes'[k] = "NotFound"]_vars

\* C5 as stated, in the part that differs: when a start handler returns Ok,
\* the store holds a record for the id.
C5_RecordHeldOnOk ==
    [][\A id \in Ids : startRes[id] # "ok" /\ startRes'[id] = "ok" => HasKey(id)']_vars

\* C5 as amended: a start request whose spawn failed returns an error, leaves the store
\* as it was and broadcasts nothing, and its id never gets a record, a monitor
\* or an event; a start request whose spawn succeeded never returns an error,
\* and its id, which no earlier request had, has been given a record once the
\* handler is past the insert (a record a Stop or the exit watcher may have
\* removed since).
C5_RecordOrError ==
    /\ [](\A id \in Ids :
            /\ id > nextId => startPc[id] = "none" /\ ~HasKey(id) /\ proc[id] = "none"
            /\ startRes[id] = "error" =>
                  /\ proc[id] = "none" /\ ~HasKey(id) /\ monPc[id] = "none"
                  /\ \A t \in EventTypes : emitted[id][t] = 0
            /\ proc[id] # "none" =>
                  /\ startRes[id] # "error"
                  /\ startPc[id] \in {"started", "done"} =>
                        HasKey(id) \/ RemovedByStop(id) \/ RemovedByWatcher(id)
                  /\ startRes[id] = "ok" => startPc[id] = "done")
    /\ [][\A id \in Ids :
            /\ startPc[id] = "none" /\ startPc'[id] # "none" =>
                  /\ id = nextId + 1 /\ ~HasKey(id)
                  /\ \A t \in EventTypes : emitted[id][t] = 0
            /\ startRes[id] # "error" /\ startRes'[id] = "error" =>
                  processes' = processes /\ queue' = queue /\ emitted' = emitted
            /\ startRes[id] # "ok" /\ startRes'[id] = "ok" => Inserted(id)]_vars

\* A failed start and a successful one whose record is in the store.
C5_Witness ==
    \E i, j \in Ids :
        /\ startRes[i] = "error" /\ startPc[i] = "done"
        /\ startRes[j] = "ok" /\ HasKey(j)

\* What was enqueued to an open connection, in order: a connection is "open"
\* while every message taken off its channel went to the socket.
Hist(c) == written[c] \o queue[c]

\* The connections that saw the whole life of the session so far.
Watching(id) ==
    {c \in connections : connPc[c] = "open" /\ connAt[c] < id /\ id <= nextId}

LogTypes == {"client_log", "server_log"}
OutputTypes == LogTypes \cup {"client_port_assigned"}
IsOf(e, id, types) == e.id = id /\ e.type \in types
Positions(q, id, types) == {i \in 1..Len(q) : IsOf(q[i], id, types)}

\* C6 as stated: to a connection registered for the whole life of a session,
\* {role}_started is enqueued before any {role}_log, client_port_assigned or
\* {role}_exited of that session.
C6_StartedFirst ==
    \A id \in Ids : \A c \in Watching(id) :
        \A i \in Positions(Hist(c), id, OutputTypes \cup ExitedTypes) :
            \E j \in Positions(Hist(c), id, {Started(id)}) : j < i

\* C7: {role}_exited is broadcast only when both pipes are drained to their
\* end and the subprocess is dead, by a monitor task holding no line; no
\* {role}_log or client_port_assigned of the session is broadcast after it,
\* so none follows it on a connection; and from the removal that precedes
\* the broadcast on, the id is not in the store.
C7_ExitedLast ==
    /\ [](\A id \in Ids :
            /\ monPc[id] \in {"exited", "done"} =>
                  /\ ~HasKey(id) /\ proc[id] = "dead" /\ monLine[id] = NoLine
                  /\ \A s \in Streams : pipe[id][s] = <<>>
            /\ \A t \in ExitedTypes : emitted[id][t] > 0 =>
                  monPc[id] = "done" /\ t = Exited(id) /\ emitted[id][t] = 1
            /\ \A c \in Watching(id) :
                  \A i \in Positions(Hist(c), id, ExitedTypes) :
                  \A j \in Positions(Hist(c), id, OutputTypes) : j < i)
    /\ [][\A id \in Ids :
            /\ \A t \in ExitedTypes : emitted'[id][t] # emitted[id][t] =>
                  monPc[id] = "exited" /\ ~HasKey(id) /\ processes' = processes
            /\ \A t \in OutputTypes : emitted'[id][t] # emitted[id][t] =>
                  \A x \in ExitedTypes : emitted[id][x] = 0]_vars

\* A connection that got a log line of a session and then its {role}_exited.
C7_Witness ==
    \E id \in Ids : \E c \in Watching(id) :
        /\ monPc[id] = "done"
        /\ Positions(Hist(c), id, LogTypes) # {}
        /\ Positions(Hist(c), id, ExitedTypes) # {}

\* C8: a broadcast appends exactly one copy of its event to the channel of
\* every connection in the set, the ones whose socket has failed included,
\* and changes no other channel nor the set; nothing but a broadcast adds to
\* a channel.
C8_OneCopyEach ==
    [][/\ \A id \in Ids, t \in EventTypes : emitted'[id][t] # emitted[id][t] =>
            /\ emitted' = [emitted EXCEPT ![id][t] = @ + 1]
            /\ connections' = connections
            /\ \A c \in Conns \ connections : queue'[c] = queue[c]
            /\ \A c \in connections :
                  /\ Len(queue'[c]) = Len(queue[c]) + 1
                  /\ SubSeq(queue'[c], 1, Len(queue[c])) = queue[c]
                  /\ IsOf(queue'[c][Len(queue'[c])], id, {t})
                  /\ \A d \in connections :
                        queue'[d][Len(queue'[d])] = queue'[c][Len(queue'[c])]
       /\ \A c \in Conns : Len(queue'[c]) > Len(queue[c]) => emitted' # emitted]_vars

\* Connection 1, registered before the session, has lost {role}_started to a
\* failed write and is still in the set; the terminal event broadcast since
\* is on its channel and on that of connection 2.
C8_Witness ==
    /\ {1, 2} \subseteq connections
    /\ connAt[1] = 0 /\ connPc[1] = "closing" /\ written[1] = <<>>
    /\ Len(queue[1]) = 1 /\ queue[1][1].type \in StoppedTypes \cup ExitedTypes
    /\ connPc[2] = "open" /\ Hist(2) # <<>>
    /\ Hist(2)[Len(Hist(2))] = queue[1][1]

\* The {role}_log events of one stream of a session carry the lines in the
\* order of the numbers the subprocess wrote them with, none twice.
InOrder(q) ==
    \A i, j \in 1..Len(q) :
        /\ i < j
        /\ q[i].type \in LogTypes /\ q[j].type \in LogTypes
        /\ q[i].id = q[j].id /\ q[i].stream = q[j].stream
        => q[i].n < q[j].n

\* C9: on a connection that stays connected, the {role}_log events of each
\* stream of each session are enqueued, and written to the socket, in the
\* order the subprocess wrote the lines, each line once and none skipped
\* before one that is there, whatever other sessions broadcast.
C9_LinesInOrder ==
    \A c \in connections : connPc[c] = "open" =>
        /\ InOrder(written[c]) /\ InOrder(queue[c]) /\ InOrder(Hist(c))
        /\ \A id \in Ids : c \in Watching(id) =>
              /\ Cardinality(Positions(Hist(c), id, LogTypes)) = emitted[id][Log(id)]
              /\ \A s \in Streams :
                    LET at == {x \in Positions(Hist(c), id, LogTypes) : Hist(c)[x].stream = s}
                    IN  /\ {Hist(c)[x].n : x \in at} = 1..Cardinality(at)
                        /\ Cardinality(at) <= nWritten[id][s]

\* Two lines of one stream of a session written to the socket in their
\* order, with an event of another session between them.
C9_Witness ==
    \E c \in connections : \E i, k, j \in 1..Len(written[c]) :
        /\ i < k /\ k < j
        /\ written[c][i].type \in LogTypes /\ written[c][j].type \in LogTypes
        /\ written[c][i].id = written[c][j].id
        /\ written[c][i].stream = written[c][j].stream
        /\ written[c][i].n = 1 /\ written[c][j].n = 2
        /\ written[c][k].id # written[c][i].id

\* C10: a Stop for an id that is not in the store returns NotFound at once
\* and leaves the store, its mutex, the connection set, every channel, every
\* subprocess and the count of events broadcast as they were.
C10_UnknownStopNoEffect ==
    [][\A k \in Stops :
          stopPc[k] = "idle" /\ stopPc'[k] # "idle" /\ ~HasKey(stopArg'[k].id) =>
              /\ stopPc'[k] = "done" /\ stopRes'[k] = "NotFound"
              /\ processes' = processes /\ procLock' = procLock
              /\ connections' = connections /\ queue' = queue /\ written' = written
              /\ signalled' = signalled /\ proc' = proc
              /\ emitted' = emitted]_vars

\* A Stop for an id no session has was answered NotFound while a record is
\* in the store and a connection is registered with an event on its channel.
C10_Witness ==
    \E k \in Stops :
        /\ stopRes[k] = "NotFound" /\ stopArg[k].id = UnknownId
        /\ processes # {} /\ \E c \in connections : queue[c] # <<>>

\* The two patterns, each on its own: the port it parses out of a line, -1
\* when the line has no such marker or the text after it is no u16.
Pattern1(line) ==
    IF Contains(line, ListeningAt) THEN ParseU16(Trim(SplitLast(line, <<":">>))) ELSE -1

Pattern2(line) ==
    IF Contains(line, RemotePortEq)
    THEN LET tok == FirstToken(SplitLast(line, RemotePortEq))
         IN  IF tok = <<>> THEN -1 ELSE ParseU16(tok)
    ELSE -1

\* C11 as stated: a client's stdout line gets a port signal iff one of the
\* two patterns parses, and the signal carries a port one of them parsed; a
\* line with both markers where pattern 1 fails to parse and pattern 2
\* parses gets the port of pattern 2.
C11_SignalIffEitherParses ==
    [][\A id \in Ids :
          role[id] = "client" /\ monPc[id] = "stdout" /\ monPc'[id] \in {"port", "log"} =>
              LET line == Texts[monLine'[id].txt] IN
              /\ monPc'[id] = "port" <=> Pattern1(line) >= 0 \/ Pattern2(line) >= 0
              /\ monPc'[id] = "port" => ActualPort(line) \in {Pattern1(line), Pattern2(line)}
              /\ Pattern1(line) < 0 /\ Pattern2(line) >= 0 =>
                    monPc'[id] = "port" /\ ActualPort(line) = Pattern2(line)]_vars

\* The event the monitor task owes for the line it holds.
LogOwed(id) ==
    Event(Log(id), id, IF monPc[id] = "errlog" THEN "stderr" ELSE "stdout", monLine[id], 0)

\* The positions after i of the events of the session's monitor task on a
\* channel.
LaterOf(q, id, i) == {j \in Positions(q, id, OutputTypes \cup ExitedTypes) : j > i}

\* C12: a line the monitor task has read is broadcast as one {role}_log of
\* its stream carrying it, before the task reads another, and {role}_log is
\* broadcast for nothing else; client_port_assigned is broadcast only by a
\* client's task between the reading of a stdout line and that line's
\* client_log, once, so that on a channel the next event of the session's
\* monitor task after it is that client_log (the handlers' {role}_started and
\* {role}_stopped come from other tasks); no server and no stderr line gives
\* one.
C12_EveryLineLogged ==
    /\ [](\A id \in Ids :
            /\ monLine[id] # NoLine <=> monPc[id] \in {"port", "log", "errlog"}
            /\ role[id] # "client" => emitted[id]["client_port_assigned"] = 0
            /\ \A c \in Watching(id) : \A i \in Positions(Hist(c), id, {"client_port_assigned"}) :
                  /\ role[id] = "client" /\ Hist(c)[i].stream = "stdout"
                  /\ \A j \in Positions(Hist(c), id, {"client_port_assigned"}) :
                        j # i => Hist(c)[j].n # Hist(c)[i].n
                  /\ IF LaterOf(Hist(c), id, i) = {}
                     THEN monPc[id] = "log" /\ monLine[id].n = Hist(c)[i].n
                     ELSE LET j == CHOOSE x \in LaterOf(Hist(c), id, i) :
                                       \A y \in LaterOf(Hist(c), id, i) : x <= y
                          IN  /\ Hist(c)[j].type = "client_log" /\ Hist(c)[j].stream = "stdout"
                              /\ Hist(c)[j].n = Hist(c)[i].n /\ Hist(c)[j].txt = Hist(c)[i].txt)
    /\ [][\A id \in Ids :
            /\ monLine[id] # NoLine => monLine'[id] \in {monLine[id], NoLine}
            /\ monLine[id] # NoLine /\ monLine'[id] = NoLine =>
                  /\ emitted'[id][Log(id)] = emitted[id][Log(id)] + 1
                  /\ \A c \in connections : queue'[c] = Append(queue[c], LogOwed(id))
            /\ \A t \in LogTypes : emitted'[id][t] # emitted[id][t] =>
                  t = Log(id) /\ monLine[id] # NoLine /\ monLine'[id] = NoLine
            /\ emitted'[id]["client_port_assigned"] # emitted[id]["client_port_assigned"] =>
                  /\ monPc[id] = "port" /\ monPc'[id] = "log" /\ monLine'[id] = monLine[id]
                  /\ emitted'[id]["client_port_assigned"] = emitted[id]["client_port_assigned"] + 1
                  /\ \A c \in connections :
                        /\ Len(queue'[c]) = Len(queue[c]) + 1
                        /\ queue'[c][Len(queue'[c])].n = monLine[id].n
                        /\ queue'[c][Len(queue'[c])].stream = "stdout"]_vars

\* A client's line with its client_port_assigned right before its client_log,
\* and the same line of a server logged with no port event.
C12_Witness ==
    \E c \in connections : \E i, j \in 1..Len(Hist(c)) :
        /\ i + 1 \in 1..Len(Hist(c))
        /\ Hist(c)[i].type = "client_port_assigned"
        /\ Hist(c)[i + 1].type = "client_log" /\ Hist(c)[i + 1].id = Hist(c)[i].id
        /\ Hist(c)[j].type = "server_log" /\ Hist(c)[j].stream = "stdout"
        /\ ActualPort(Texts[Hist(c)[j].txt]) >= 0
        /\ emitted[Hist(c)[j].id]["client_port_assigned"] = 0

\* C13: a connection's id is in the set exactly while handle_socket is
\* between its registration and its removal, where its receiving end is
\* alive; the removal follows the end of one of the two halves, after which
\* neither half reads or writes again, happens once, and the id never comes
\* back; a broadcast leaves the channel of an id that is not in the set alone
\* and its send succeeds for every id that is in it; the ping handler never
\* panics.
C13_RegisteredWhileAlive ==
    /\ [](\A c \in Conns :
            /\ c \in connections <=> connPc[c] \in {"open", "closing"}
            /\ c \in connections => RxAlive(c)
            /\ connPc[c] # "panicked")
    /\ [][\A c \in Conns :
            /\ c \in connections /\ c \notin connections' =>
                  connPc[c] = "closing" /\ connPc'[c] = "closed"
            /\ c \notin connections /\ c \in connections' => connPc[c] = "none"
            /\ connPc[c] \in {"closing", "closed"} =>
                  /\ inbound'[c] = inbound[c] /\ written'[c] = written[c]
                  /\ connPc'[c] \in {"closing", "closed"}
            /\ c \notin connections => queue'[c] = queue[c]
            /\ c \in connections /\ emitted' # emitted =>
                  Len(queue'[c]) = Len(queue[c]) + 1]_vars

\* Connection 1 has answered a ping and is removed; connection 2, whose
\* write half failed on the first event, is still in the set and has got a
\* later broadcast on its channel.
C13_Witness ==
    /\ connPc[1] = "closed" /\ 1 \notin connections
    /\ \E i \in 1..Len(inbound[1]) : inbound[1][i].kind = "ping"
    /\ connPc[2] = "closing" /\ 2 \in connections
    /\ connAt[2] = 0 /\ written[2] = <<>> /\ Len(queue[2]) = 1
    /\ queue[2][1].type \in ExitedTypes

\* The last text message recv_task has handled on a connection.
LastIn(k) == inbound'[k][Len(inbound'[k])]

\* C14: handling an inbound ping with id x on connection k appends one pong
\* carrying x to the channel of k and changes no other channel; handling any
\* other text message changes no channel; neither changes the process store,
\* the connection set or the events broadcast; and a pong gets on a channel in
\* no other way.
C14_PongPerPing ==
    [][\A k \in Conns :
          /\ inbound'[k] # inbound[k] =>
                /\ inbound'[k] = Append(inbound[k], LastIn(k))
                /\ processes' = processes /\ connections' = connections
                /\ emitted' = emitted /\ written' = written
                /\ \A c \in Conns \ {k} : queue'[c] = queue[c]
                /\ IF LastIn(k).kind = "ping"
                   THEN /\ Len(queue'[k]) = Len(queue[k]) + 1
                        /\ SubSeq(queue'[k], 1, Len(queue[k])) = queue[k]
                        /\ queue'[k][Len(queue'[k])].type = "pong"
                        /\ queue'[k][Len(queue'[k])].corr = LastIn(k).corr
                   ELSE queue'[k] = queue[k]
          /\ Len(queue'[k]) > Len(queue[k]) /\ queue'[k][Len(queue'[k])].type = "pong" =>
                inbound'[k] # inbound[k]]_vars

\* The pong to a ping with id "a" was written to the socket of connection 1,
\* connection 2 is registered and has got none.
C14_Witness ==
    /\ inbound[1] = <<[kind |-> "ping", corr |-> "a"]>>
    /\ \E i \in 1..Len(written[1]) : written[1][i].type = "pong" /\ written[1][i].corr = "a"
    /\ 2 \in connections
    /\ \A i \in 1..Len(Hist(2)) : Hist(2)[i].type # "pong"

\* C15 as stated: the two stream loops do not wait for each other: whenever
\* the monitor task is between lines and a line is in one of the pipes, the
\* task can read that line, whatever the state of the other stream.
C15_LoopsIndependent ==
    \A id \in Ids :
        monPc[id] \in {"stdout", "stderr"} =>
            /\ pipe[id]["stderr"] # <<>> => ENABLED MonReadStderr(id)
            /\ pipe[id]["stdout"] # <<>> => ENABLED MonReadStdout(id)

\* C16: once the subprocess of a session is dead, the monitor task gets to
\* its end with the id out of the store and {role}_exited broadcast once; and
\* at its end things stay so.
C16_ExitedInTheEnd ==
    /\ \A id \in Ids :
          proc[id] = "dead" ~>
              (monPc[id] = "done" /\ ~HasKey(id) /\ emitted[id][Exited(id)] = 1)
    /\ [][\A id \in Ids :
            monPc[id] = "done" => monPc'[id] = "done" /\ ~HasKey(id)']_vars

\* The monitor task of a session that a Stop has signalled is at its end.
C16_Witness ==
    \E id \in Ids :
        /\ signalled[id] /\ proc[id] = "dead" /\ monPc[id] = "done"
        /\ ~HasKey(id) /\ emitted[id][Exited(id)] = 1 /\ nWritten[id]["stderr"] > 0

\* C17 as stated: no task holds the mutex of the process store while it waits
\* for the kill command of a Stop to complete (the mutex of the connection set
\* is taken and dropped within one step of every task).
C17_NoLockAcrossKill ==
    \A k \in Stops : stopPc[k] = "kill" => procLock # k

\* The msg_type values of a role.
TypesOf(r) ==
    {r \o x : x \in {"_started", "_port_assigned", "_log", "_exited", "_stopped"}}

\* C18 as stated: every event broadcast for a session has the prefix of the
\* role the session was started with, whichever stop handler is applied to
\* its id.
C18_RolePrefix ==
    \A id \in Ids : \A t \in EventTypes : emitted[id][t] > 0 => t \in TypesOf(role[id])

\* C19: a task that waits for the mutex of the process store (a start
\* handler at its insert, a monitor task at its removal) gets it, the Stop
\* that holds it lets go of it, and a connection handler gets to its removal
\* from the connection set; while a Stop holds the mutex of the store no other
\* task changes the store, and no step that works on the connection set or on
\* a channel takes the store or its mutex.
C19_LocksGranted ==
    /\ \A id \in Ids : startPc[id] = "insert" ~> startPc[id] = "started"
    /\ \A id \in Ids : monPc[id] = "remove" ~> monPc[id] = "exited"
    /\ \A k \in Stops : procLock = k ~> procLock = 0
    /\ \A c \in Conns : connPc[c] = "closing" ~> connPc[c] = "closed"
    /\ [][/\ procLock # 0 => processes' = processes /\ procLock' \in {procLock, 0}
          /\ queue' # queue \/ connections' # connections =>
                processes' = processes /\ procLock' \in {procLock, 0}]_vars

\* A Stop holds the mutex of the store and is about to broadcast, the monitor
\* task waits for the mutex at its removal and a connection handler is about
\* to take itself out of the connection set.
C19_Witness ==
    \E k \in Stops, id \in Ids, c \in Conns :
        /\ procLock = k /\ stopPc[k] = "stopped"
        /\ monPc[id] = "remove" /\ connPc[c] = "closing"

\* C20: where a Stop has found the record of a session, {role}_exited is
\* broadcast for the session only after that Stop has broadcast its
\* {role}_stopped and returned Success, so that on every channel the stopped
\* event of the session is ahead of its exited event.
C20_StoppedBeforeExited ==
    /\ [](\A id \in Ids : \A c \in Watching(id) :
            \A i \in Positions(Hist(c), id, StoppedTypes) :
            \A j \in Positions(Hist(c), id, ExitedTypes) : i < j)
    /\ [][\A id \in Ids : \A k \in Stops :
            /\ stopArg[k].id = id /\ stopPid[k] # 0
            /\ \E t \in ExitedTypes : emitted'[id][t] # emitted[id][t]
            => /\ stopRes[k] = "Success"
               /\ \E t \in StoppedTypes : emitted[id][t] = 1]_vars

\* A Stop returned Success and the observer has the session's stopped event
\* and, after it, its exited event.
C20_Witness ==
    \E k \in Stops : \E c \in Watching(stopArg[k].id) :
        /\ stopRes[k] = "Success"
        /\ Positions(Hist(c), stopArg[k].id, StoppedTypes) # {}
        /\ Positions(Hist(c), stopArg[k].id, ExitedTypes) # {}

====
